---- MODULE Spec2Model ----
(***************************************************************************)
(* Hocus-Pocus: landmark audio fingerprinting and offset-vote matching.    *)
(*                                                                         *)
(* SpecGen  : FingerprintGenerator.generate_fingerprints and               *)
(*            generate_robust_fingerprints applied to peak lists           *)
(*            (src/src/core/fingerprint_generator.py).                     *)
(* Spec     : the fingerprint index: ingestion, matching, optimization     *)
(*            (src/src/database/database_manager.py, engine.py).           *)
(* SpecConc : Engine.add_song_to_database interleaved with readers.        *)
(* SpecAudio: SpectrogramProcessor.compute_spectrogram and the analysis    *)
(*            steps of Engine.identify_song                                *)
(*            (src/src/audio/spectrogram_processor.py, engine.py).         *)
(* SpecPeaks: SpectrogramProcessor.find_peaks on dB matrices.              *)
(* SpecOpt  : optimize_database, needs_optimization and is_optimized on    *)
(*            tables with byte-encoded fields.                             *)
(* SpecDb   : the public operations of DatabaseManager, one by one.        *)
(* SpecBulk : execute_bulk_upload (src/src/cli/folder_upload.py).          *)
(***************************************************************************)
EXTENDS Integers, Sequences, FiniteSets

VARIABLES
    \* FingerprintGenerator: its configuration, a peak list and the output of
    \* generate_fingerprints for it and for a permutation of it
    fan_value, target_zone, peaks, fingerprints,
    shuffled_peaks, shuffled_fingerprints, gen_pc,
    \* the configuration the generator was constructed with; the argument and
    \* output of generate_robust_fingerprints; the output of a repeated call
    configured, multiple_strategies, robust_fingerprints, again_fingerprints,
    \* DatabaseManager: the Songs and Fingerprints tables
    Songs, Fingerprints,
    \* the last match_query call and the get_match_details call that followed;
    \* the last optimize_database call; the last needs_optimization and
    \* is_optimized calls; a repetition of the last match_query call; the
    \* progress of execute_bulk_upload
    matched, details, optimized, reported, rematched, upload,
    \* Engine.add_song_to_database in progress: position, song id, fingerprints
    w_pc, w_song_id, w_fingerprints,
    \* a reader in progress: position, the query left to look up, its votes
    r_pc, r_query, r_scores,
    \* what the reader's last statement saw of the song being ingested
    seen,
    \* SpectrogramProcessor configuration; a decoded file: the number of
    \* samples of its signal and its sample rate; identify_song's max_duration
    fft_size, hop_length, signal, sample_rate, max_duration,
    \* the last compute_spectrogram call and the last identify_song call on a file
    spectrogram, identified, audio_pc,
    \* a find_peaks call: its arguments and what it returned
    S_db, neighborhood, threshold, found, peaks_pc

gen_vars == <<fan_value, target_zone, peaks, fingerprints,
              shuffled_peaks, shuffled_fingerprints, gen_pc,
              configured, multiple_strategies, robust_fingerprints, again_fingerprints>>

db_vars == <<Songs, Fingerprints>>

conc_vars == <<w_pc, w_song_id, w_fingerprints, r_pc, r_query, r_scores, seen>>

audio_vars == <<fft_size, hop_length, signal, sample_rate, max_duration,
                spectrogram, identified, audio_pc>>

peak_vars == <<S_db, neighborhood, threshold, found, peaks_pc>>

sig_vars == <<audio_vars, peak_vars>>

vars == <<gen_vars, db_vars, matched, details, optimized, reported, rematched, upload, conc_vars, sig_vars>>

----------------------------------------------------------------------------
(* Bounds *)

MaxPeaks == 3
MaxFan == 2
MaxSongs == 2
MaxRows == 3
MaxQuery == 2
MaxSamples == 6
MaxFft == 3
MaxHop == 2
MaxDuration == 2
MaxBins == 2
MaxFrames == 3
MaxWindow == 3
MaxStored == 2
MaxTable == 11
MaxPostings == 2
MaxFiles == 3

----------------------------------------------------------------------------
(* Helpers *)

Range(s) == {s[i] : i \in DOMAIN s}

Min(a, b) == IF a <= b THEN a ELSE b

Max(a, b) == IF a >= b THEN a ELSE b

SeqsUpTo(S, n) == UNION {[1..k -> S] : k \in 0..n}

\* the multiset of the entries of a sequence
BagOfSeq(s) == [x \in Range(s) |-> Cardinality({i \in DOMAIN s : s[i] = x})]

Shuffles(s) ==
    {[i \in DOMAIN s |-> s[f[i]]] :
        f \in {g \in [DOMAIN s -> DOMAIN s] : \A i, j \in DOMAIN s : g[i] = g[j] => i = j}}

----------------------------------------------------------------------------
(* FingerprintGenerator: a peak is <<time_index, freq_index>>, a           *)
(* fingerprint is <<<<f_anchor, f_target, delta_t>>, t_anchor>>.           *)

RECURSIVE InsertByTime(_, _)
\* one step of the stable sort on the key peak[0]: p goes behind every peak
\* whose time is <= its own
InsertByTime(s, p) ==
    IF s = <<>> THEN <<p>>
    ELSE IF Head(s)[1] <= p[1] THEN <<Head(s)>> \o InsertByTime(Tail(s), p)
    ELSE <<p>> \o s

RECURSIVE sorted_by_time(_)
\* sorted(peaks, key=lambda peak: peak[0])
sorted_by_time(ps) ==
    IF ps = <<>> THEN <<>>
    ELSE InsertByTime(sorted_by_time(SubSeq(ps, 1, Len(ps) - 1)), ps[Len(ps)])

RECURSIVE TargetLoop(_, _, _, _, _)
\* for j in range(1, min(fan_value + 1, len(sorted_peaks) - i)), i 0-based;
\* here i is 1-based, so len(sorted_peaks) - i becomes Len(sp) - (i - 1)
TargetLoop(sp, i, j, fan, zone) ==
    IF j >= Min(fan + 1, Len(sp) - (i - 1)) THEN <<>>
    ELSE LET t_anchor == sp[i][1]
             f_anchor == sp[i][2]
             target_idx == i + j
             t_target == sp[target_idx][1]
             f_target == sp[target_idx][2]
             delta_t == t_target - t_anchor
             emitted == IF zone[1] <= delta_t /\ delta_t <= zone[2]
                        THEN << <<<<f_anchor, f_target, delta_t>>, t_anchor>> >>
                        ELSE <<>>
         IN emitted \o TargetLoop(sp, i, j + 1, fan, zone)

RECURSIVE AnchorLoop(_, _, _, _)
\* for i, (t_anchor, f_anchor) in enumerate(sorted_peaks)
AnchorLoop(sp, i, fan, zone) ==
    IF i > Len(sp) THEN <<>>
    ELSE TargetLoop(sp, i, 1, fan, zone) \o AnchorLoop(sp, i + 1, fan, zone)

\* generate_fingerprints pairing an anchor with every later peak in the
\* target zone, whatever the fan-out
generate_fingerprints_ignoring_fan(ps, fan, zone) ==
    IF ps = <<>> THEN <<>>
    ELSE AnchorLoop(sorted_by_time(ps), 1, Len(ps), zone)

generate_fingerprints(ps, fan, zone) ==
    IF ps = <<>> THEN <<>>
    ELSE AnchorLoop(sorted_by_time(ps), 1, fan, zone)

RECURSIVE UniqueLoop(_, _, _)
\* for fingerprint_hash, t_anchor in fingerprints (from entry k on)
UniqueLoop(fps, k, seen_hashes) ==
    IF k > Len(fps) THEN <<>>
    ELSE IF fps[k][1] \notin seen_hashes
         THEN <<fps[k]>> \o UniqueLoop(fps, k + 1, seen_hashes \cup {fps[k][1]})
         ELSE UniqueLoop(fps, k + 1, seen_hashes)

\* _remove_duplicates comparing whole fingerprints, hash and t_anchor
remove_duplicates_by_entry(fps) ==
    LET first(k) == \A m \in 1..(k - 1) : fps[m] # fps[k]
        F[k \in 0..Len(fps)] ==
            IF k = 0 THEN <<>> ELSE IF first(k) THEN Append(F[k - 1], fps[k]) ELSE F[k - 1]
    IN F[Len(fps)]

\* FingerprintGenerator._remove_duplicates
remove_duplicates(fps) == UniqueLoop(fps, 1, {})

\* reduced_fan_value = max(2, self.fan_value // 2)
reduced_fan_value(fan) == Max(2, fan \div 2)

\* range(1, min(fan + 1, len(sorted_peaks) - i)) for the anchor at the
\* 1-based position i: the offsets j of the peaks the anchor is paired with
target_range(sp, i, fan) == 1..(Min(fan + 1, Len(sp) - (i - 1)) - 1)

\* the second loop of generate_robust_fingerprints (strategy 2)
second_pass(ps, fan, zone) ==
    LET sorted_peaks == sorted_by_time(ps)
        extended_max_delta == zone[2] + 5
    IN AnchorLoop(sorted_peaks, 1, reduced_fan_value(fan), <<zone[1], extended_max_delta>>)

\* the list handed to _remove_duplicates: strategy 1, then strategy 2
robust_candidates(ps, fan, zone) ==
    generate_fingerprints(ps, fan, zone) \o second_pass(ps, fan, zone)

\* generate_robust_fingerprints leaving the reduced fan-out in self.fan_value
generate_robust_fingerprints_keeping_reduced_fan(ps, fan, zone, multiple) ==
    IF ~multiple THEN [out |-> generate_fingerprints(ps, fan, zone), fan_value |-> fan]
    ELSE IF ps = <<>> THEN [out |-> <<>>, fan_value |-> fan]
    ELSE [out |-> remove_duplicates(robust_candidates(ps, fan, zone)),
          fan_value |-> reduced_fan_value(fan)]

\* FingerprintGenerator.generate_robust_fingerprints: what it returns, and
\* self.fan_value when it returns (line 129 assigns it)
generate_robust_fingerprints(ps, fan, zone, multiple) ==
    IF ~multiple THEN [out |-> generate_fingerprints(ps, fan, zone), fan_value |-> fan]
    ELSE IF ps = <<>> THEN [out |-> <<>>, fan_value |-> fan]
    ELSE LET original_fan_value == fan
         IN [out |-> remove_duplicates(robust_candidates(ps, fan, zone)),
             fan_value |-> original_fan_value]

----------------------------------------------------------------------------
(* SpectrogramProcessor.  A signal is modelled by its number of samples,   *)
(* a spectrogram by its shape and axes; a spectrogram_db matrix handed to  *)
(* find_peaks is a sequence of frequency rows, each a sequence of dB       *)
(* values over the time frames.                                            *)

\* len(signal[start:end]) for 0 <= start <= end
slice_len(n, start, end) == Max(0, Min(end, n) - Min(start, n))

\* len(np.fft.rfft(x)) and len(np.fft.rfftfreq(n)) for len(x) = n
rfft_len(n) == n \div 2 + 1

NoSpectrogram(status) ==
    [status |-> status, shape |-> <<0, 0>>, frequencies |-> 0, times |-> 0,
     padded_frames |-> {}]

\* compute_spectrogram rejecting a signal of exactly fft_size samples
compute_spectrogram_rejecting_equal(n, fft, hop) ==
    IF n <= fft THEN NoSpectrogram("ValueError")
    ELSE IF hop = 0 THEN NoSpectrogram("ZeroDivisionError")
    ELSE [status |-> "ok",
          shape |-> <<fft \div 2 + 1, 1 + (n - fft) \div hop>>,
          frequencies |-> rfft_len(fft),
          times |-> 1 + (n - fft) \div hop,
          padded_frames |-> {}]

\* compute_spectrogram counting the trailing partial hop as a frame
compute_spectrogram_rounding_up(n, fft, hop) ==
    IF n < fft THEN NoSpectrogram("ValueError")
    ELSE IF hop = 0 THEN NoSpectrogram("ZeroDivisionError")
    ELSE [status |-> "ok",
          shape |-> <<fft \div 2 + 1, 1 + (n - fft + hop - 1) \div hop>>,
          frequencies |-> rfft_len(fft),
          times |-> 1 + (n - fft + hop - 1) \div hop,
          padded_frames |-> {}]

\* compute_spectrogram with a last frame for the samples left over, filled
\* up by np.pad
compute_spectrogram_covering_tail(n, fft, hop) ==
    IF n < fft THEN NoSpectrogram("ValueError")
    ELSE IF hop = 0 THEN NoSpectrogram("ZeroDivisionError")
    ELSE LET num_frames == 1 + (n - fft + hop - 1) \div hop
             audio_frame(frame_index) ==
                 slice_len(n, frame_index * hop, frame_index * hop + fft)
         IN [status |-> "ok",
             shape |-> <<fft \div 2 + 1, num_frames>>,
             frequencies |-> rfft_len(fft),
             times |-> num_frames,
             padded_frames |->
                 {frame_index \in 0..(num_frames - 1) : audio_frame(frame_index) < fft}]

\* SpectrogramProcessor.compute_spectrogram on a signal of n samples:
\* shape is (frequency bins, time frames), frequencies and times are the
\* lengths of the two axes, padded_frames the frames that np.pad filled up
compute_spectrogram(n, fft, hop) ==
    IF n < fft THEN NoSpectrogram("ValueError")
    ELSE IF hop = 0 THEN NoSpectrogram("ZeroDivisionError")
    ELSE LET num_frames == 1 + (n - fft) \div hop
             audio_frame(frame_index) ==
                 slice_len(n, frame_index * hop, frame_index * hop + fft)
         IN [status |-> "ok",
             shape |-> <<fft \div 2 + 1, num_frames>>,
             frequencies |-> rfft_len(fft),
             times |-> num_frames,
             padded_frames |->
                 {frame_index \in 0..(num_frames - 1) : audio_frame(frame_index) < fft}]

MaxOfSet(S) == CHOOSE x \in S : \A y \in S : y <= x

Clamp(x, lo, hi) == IF x < lo THEN lo ELSE IF x > hi THEN hi ELSE x

freq_dim_of(array) == Len(array)

time_dim_of(array) == IF array = <<>> THEN 0 ELSE Len(array[1])

\* a maximum filter that pads the matrix, not the filtered result: every
\* cell gets the maximum of the window around itself, cut off at the border
maximum_filter_padding_input(array, filter_size) ==
    LET freq_pad == (filter_size[1] - 1) \div 2
        time_pad == (filter_size[2] - 1) \div 2
    IN [status |-> "ok",
        result |->
            [r \in 1..freq_dim_of(array) |->
                [c \in 1..time_dim_of(array) |->
                    MaxOfSet({array[i][j] :
                        i \in Max(1, r - freq_pad)
                                ..Min(freq_dim_of(array), r - freq_pad + filter_size[1] - 1),
                        j \in Max(1, c - time_pad)
                                ..Min(time_dim_of(array), c - time_pad + filter_size[2] - 1)})]]]

\* SpectrogramProcessor.maximum_filter.  sliding_windows has one full
\* window per position where a whole window fits; np.max takes its maximum;
\* np.pad(mode='edge') then repeats the border of that result.  A negative
\* output_shape makes as_strided raise ValueError, an empty one makes np.pad
\* raise ValueError (an empty axis cannot be extended in mode 'edge').
maximum_filter(array, filter_size) ==
    LET freq_window == filter_size[1]
        time_window == filter_size[2]
        freq_dim == freq_dim_of(array)
        time_dim == time_dim_of(array)
        out_freq == freq_dim - freq_window + 1
        out_time == time_dim - time_window + 1
        filtered_result(i, j) ==
            MaxOfSet({array[i + a][j + b] :
                        a \in 0..(freq_window - 1), b \in 0..(time_window - 1)})
        freq_pad == (freq_window - 1) \div 2
        time_pad == (time_window - 1) \div 2
    IN IF out_freq < 1 \/ out_time < 1
       THEN [status |-> "ValueError", result |-> <<>>]
       ELSE [status |-> "ok",
             result |->
                 [r \in 1..freq_dim |->
                     [c \in 1..time_dim |->
                         filtered_result(Clamp(r - freq_pad, 1, out_freq),
                                         Clamp(c - time_pad, 1, out_time))]]]

\* the cells of a freq_dim x time_dim matrix in np.argwhere order
\* (frequency first, then time)
argwhere_order(freq_dim, time_dim) ==
    [k \in 1..(freq_dim * time_dim) |->
        <<((k - 1) \div time_dim) + 1, ((k - 1) % time_dim) + 1>>]

\* find_peaks that also reports the cells equal to threshold_db
find_peaks_at_threshold(spectrogram_db, neighborhood_size, threshold_db) ==
    LET local_maxima == maximum_filter(spectrogram_db, neighborhood_size)
        peak_mask(cell) ==
            /\ spectrogram_db[cell[1]][cell[2]] = local_maxima.result[cell[1]][cell[2]]
            /\ spectrogram_db[cell[1]][cell[2]] >= threshold_db
        peak_coordinates ==
            SelectSeq(argwhere_order(freq_dim_of(spectrogram_db),
                                     time_dim_of(spectrogram_db)), peak_mask)
    IN IF local_maxima.status # "ok"
       THEN [status |-> local_maxima.status, local_maxima |-> <<>>, peak_list |-> <<>>]
       ELSE [status |-> "ok",
             local_maxima |-> local_maxima.result,
             peak_list |->
                 [k \in DOMAIN peak_coordinates |->
                     <<peak_coordinates[k][2] - 1, peak_coordinates[k][1] - 1>>]]

\* SpectrogramProcessor.find_peaks: peaks are (time_idx, freq_idx), 0-based
find_peaks(spectrogram_db, neighborhood_size, threshold_db) ==
    LET local_maxima == maximum_filter(spectrogram_db, neighborhood_size)
        peak_mask(cell) ==
            /\ spectrogram_db[cell[1]][cell[2]] = local_maxima.result[cell[1]][cell[2]]
            /\ spectrogram_db[cell[1]][cell[2]] > threshold_db
        peak_coordinates ==
            SelectSeq(argwhere_order(freq_dim_of(spectrogram_db),
                                     time_dim_of(spectrogram_db)), peak_mask)
    IN IF local_maxima.status # "ok"
       THEN [status |-> local_maxima.status, local_maxima |-> <<>>, peak_list |-> <<>>]
       ELSE [status |-> "ok",
             local_maxima |-> local_maxima.result,
             peak_list |->
                 [k \in DOMAIN peak_coordinates |->
                     <<peak_coordinates[k][2] - 1, peak_coordinates[k][1] - 1>>]]

----------------------------------------------------------------------------
(* Engine: the path of a file's signal through process_audio_file and      *)
(* identify_song.  A step records the function called, the number of       *)
(* samples of the signal it worked on, and how it ended.                   *)

\* find_peaks is called with its default neighborhood_size, (20, 20) in the
\* source, scaled here to the spectrograms of the model
default_neighborhood_size == <<2, 2>>

Step(fn, samples, status) == [fn |-> fn, samples |-> samples, status |-> status]

\* a matrix of the given shape; the steps below use only how find_peaks ends
MatrixOfShape(shape) == [r \in 1..shape[1] |-> [c \in 1..shape[2] |-> 0]]

\* compute_spectrogram, find_peaks, generate_fingerprints on n samples
\* (process_audio_file lines 91-97, identify_song lines 202-205)
analyse(n, fft, hop) ==
    LET computed == compute_spectrogram(n, fft, hop)
        step1 == Step("compute_spectrogram", n, computed.status)
        peaks_found == find_peaks(MatrixOfShape(computed.shape), default_neighborhood_size, 0)
        step2 == Step("find_peaks", n, peaks_found.status)
        step3 == Step("generate_fingerprints", n, "ok")
    IN IF computed.status # "ok" THEN [status |-> computed.status, steps |-> <<step1>>]
       ELSE IF peaks_found.status # "ok"
            THEN [status |-> peaks_found.status, steps |-> <<step1, step2>>]
       ELSE [status |-> "ok", steps |-> <<step1, step2, step3>>]

\* Engine.process_audio_file on a file whose decoded signal has n samples
process_audio_file(n, fft, hop) == analyse(n, fft, hop)

\* Engine.identify_song on such a file, up to and including match_query;
\* duration = n / rate, max_samples = int(max_duration * rate)
identify_song(n, rate, max_dur, fft, hop) ==
    LET analysis_results == process_audio_file(n, fft, hop)
        max_samples == max_dur * rate
        limited_signal == slice_len(n, 0, max_samples)
        limited == analyse(limited_signal, fft, hop)
        match(samples) == Step("match_query", samples, "ok")
    IN IF analysis_results.status # "ok"
       THEN [status |-> analysis_results.status, steps |-> analysis_results.steps]
       ELSE IF max_dur # 0 /\ n > max_dur * rate
            THEN IF limited.status # "ok"
                 THEN [status |-> limited.status,
                       steps |-> analysis_results.steps \o limited.steps]
                 ELSE [status |-> "ok",
                       steps |-> analysis_results.steps \o limited.steps
                                    \o <<match(limited_signal)>>]
       ELSE [status |-> "ok", steps |-> analysis_results.steps \o <<match(n)>>]

----------------------------------------------------------------------------
(* Stored values.  A column of Fingerprints holds an SQLite value of one   *)
(* of the storage classes INTEGER, BLOB, REAL or TEXT (NOT NULL excludes   *)
(* NULL).  v is always a sequence of integers:                             *)
(*   int  <<n>>          blob  the bytes          real  <<num, den>>       *)
(*   inf  <<>> (REAL infinity)            text  <<>> (not a number)        *)

IntVal(n) == [kind |-> "int", v |-> <<n>>]
BlobVal(b) == [kind |-> "blob", v |-> b]
RealVal(num, den) == [kind |-> "real", v |-> <<num, den>>]
InfVal == [kind |-> "inf", v |-> <<>>]
TextVal == [kind |-> "text", v |-> <<>>]

\* no song: best_song_id = None (song ids are AUTOINCREMENT, from 1)
None == 0

\* struct.unpack('<i', b[:4])[0]: the first four bytes, little-endian, signed
unpack_i32(b) ==
    b[1] + 256 * b[2] + 65536 * b[3]
         + 16777216 * (IF b[4] >= 128 THEN b[4] - 256 ELSE b[4])

RECURSIVE from_bytes_little(_)
\* int.from_bytes(b, 'little'), unsigned
from_bytes_little(b) ==
    IF b = <<>> THEN 0 ELSE Head(b) + 256 * from_bytes_little(Tail(b))

\* The conversion of a fetched t_anchor inside the try block: "ok" with the
\* integer, "skip" when int() raises ValueError (caught), "raise" when it
\* raises OverflowError, which the except clause does not name.
t_anchor_int(val) ==
    CASE val.kind = "blob" ->
            [outcome |-> "ok",
             n |-> IF Len(val.v) >= 4 THEN unpack_i32(val.v)
                   ELSE from_bytes_little(val.v)]
      [] val.kind = "int" -> [outcome |-> "ok", n |-> val.v[1]]
      [] val.kind = "real" -> [outcome |-> "ok", n |-> val.v[1] \div val.v[2]]
      [] val.kind = "text" -> [outcome |-> "skip", n |-> 0]
      [] val.kind = "inf" -> [outcome |-> "raise", n |-> 0]

\* column = ? with an integer parameter: only a stored INTEGER can be equal
SqlEqInt(val, n) == val.kind = "int" /\ val.v[1] = n

\* a lookup that leaves delta_t out of the WHERE clause
fetch_matches_without_delta_t(table, hash) ==
    SelectSeq(table, LAMBDA r : /\ SqlEqInt(r.f_anchor, hash[1])
                                /\ SqlEqInt(r.f_target, hash[2]))

\* SELECT song_id, t_anchor FROM Fingerprints WHERE f_anchor=? AND
\* f_target=? AND delta_t=? ; fetchall(), rows in rowid order
fetch_matches(table, hash) ==
    SelectSeq(table, LAMBDA r : /\ SqlEqInt(r.f_anchor, hash[1])
                                /\ SqlEqInt(r.f_target, hash[2])
                                /\ SqlEqInt(r.delta_t, hash[3]))

\* scores[(song_id, offset)] = 1: the count of a key seen before is lost
increment_overwrites(scores, key) ==
    IF \E i \in DOMAIN scores : scores[i].key = key
    THEN [i \in DOMAIN scores |->
            IF scores[i].key = key THEN [scores[i] EXCEPT !.n = 1] ELSE scores[i]]
    ELSE Append(scores, [key |-> key, n |-> 1])

\* scores[(song_id, offset)] += 1 on a dict that keeps insertion order:
\* a sequence of [key, n], a new key goes to the end
increment(scores, key) ==
    IF \E i \in DOMAIN scores : scores[i].key = key
    THEN [i \in DOMAIN scores |->
            IF scores[i].key = key THEN [scores[i] EXCEPT !.n = @ + 1] ELSE scores[i]]
    ELSE Append(scores, [key |-> key, n |-> 1])

\* the offset with its operands exchanged
vote_offset_reversed(t_anchor_db, t_anchor_query) == t_anchor_query - t_anchor_db

\* offset = t_anchor_db - t_anchor_query
vote_offset(t_anchor_db, t_anchor_query) == t_anchor_db - t_anchor_query

RECURSIVE PostingsLoop(_, _, _, _)
\* for song_id, t_anchor_db in matches
PostingsLoop(matches, k, t_anchor_query, scores) ==
    IF k > Len(matches) THEN [raised |-> FALSE, scores |-> scores]
    ELSE LET conv == t_anchor_int(matches[k].t_anchor)
         IN CASE conv.outcome = "raise" -> [raised |-> TRUE, scores |-> scores]
              [] conv.outcome = "skip" ->
                    PostingsLoop(matches, k + 1, t_anchor_query, scores)
              [] conv.outcome = "ok" ->
                    LET offset == vote_offset(conv.n, t_anchor_query)
                    IN PostingsLoop(matches, k + 1, t_anchor_query,
                                    increment(scores, <<matches[k].song_id, offset>>))

RECURSIVE QueryLoop(_, _, _, _)
\* for (f_anchor, f_target, delta_t), t_anchor_query in fingerprints_query
QueryLoop(table, fingerprints_query, k, scores) ==
    IF k > Len(fingerprints_query)
    THEN [raised |-> FALSE, scores |-> scores, lookups |-> k - 1]
    ELSE LET matches == fetch_matches(table, fingerprints_query[k][1])
             after == PostingsLoop(matches, 1, fingerprints_query[k][2], scores)
         IN IF after.raised
            THEN [raised |-> TRUE, scores |-> after.scores, lookups |-> k]
            ELSE QueryLoop(table, fingerprints_query, k + 1, after.scores)

\* max(items) without the key function: the entry with the largest
\* (song_id, offset), whatever its count
max_by_key(items) ==
    LET i == CHOOSE i \in DOMAIN items :
                \A j \in DOMAIN items :
                    \/ items[j].key[1] < items[i].key[1]
                    \/ /\ items[j].key[1] = items[i].key[1]
                       /\ items[j].key[2] <= items[i].key[2]
    IN items[i]

\* max(items, key=lambda x: x[1]) returning the last entry with the largest
\* count
max_by_score_last(items) ==
    LET i == CHOOSE i \in DOMAIN items :
                /\ \A j \in DOMAIN items : items[j].n <= items[i].n
                /\ \A j \in (i + 1)..Len(items) : items[j].n < items[i].n
    IN items[i]

\* max(items, key=lambda x: x[1]): the first entry with the largest count
max_by_score(items) ==
    LET i == CHOOSE i \in DOMAIN items :
                /\ \A j \in DOMAIN items : items[j].n <= items[i].n
                /\ \A j \in 1..(i - 1) : items[j].n < items[i].n
    IN items[i]

match_query(table, fingerprints_query) ==
    LET run == QueryLoop(table, fingerprints_query, 1, <<>>)
    IN IF run.raised
       THEN [status |-> "raised", best_song_id |-> None, scores |-> <<>>,
             lookups |-> run.lookups]
       ELSE IF run.scores # <<>>
       THEN [status |-> "returned", best_song_id |-> max_by_score(run.scores).key[1],
             scores |-> run.scores, lookups |-> run.lookups]
       ELSE [status |-> "returned", best_song_id |-> None, scores |-> run.scores,
             lookups |-> run.lookups]

RECURSIVE SumScores(_)
SumScores(items) == IF items = <<>> THEN 0 ELSE Head(items).n + SumScores(Tail(items))

\* get_song_info(song_id) finds a row
song_info_found(songs, song_id) == song_id \in songs

\* get_match_details with confidence = best_score / total_matches
get_match_details_over_total(songs, song_id, scores) ==
    IF ~(song_id \in songs)
    THEN [empty |-> TRUE, best_offset |-> 0, best_score |-> 0,
          total_matches |-> 0, confidence |-> <<0, 1>>]
    ELSE LET song_scores == SelectSeq(scores, LAMBDA e : e.key[1] = song_id)
             best == IF song_scores # <<>>
                     THEN song_scores[CHOOSE i \in DOMAIN song_scores :
                            /\ \A j \in DOMAIN song_scores : song_scores[j].n <= song_scores[i].n
                            /\ \A j \in 1..(i - 1) : song_scores[j].n < song_scores[i].n]
                     ELSE [key |-> <<song_id, 0>>, n |-> 0]
             total == SumScores(song_scores)
         IN [empty |-> FALSE,
             best_offset |-> best.key[2],
             best_score |-> best.n,
             total_matches |-> total,
             confidence |-> IF scores # <<>> THEN <<best.n, total>> ELSE <<0, 1>>]

\* the dict get_match_details returns; empty is the {} of a song with no row,
\* confidence is the fraction <<numerator, denominator>>
get_match_details(songs, song_id, scores) ==
    IF ~song_info_found(songs, song_id)
    THEN [empty |-> TRUE, best_offset |-> 0, best_score |-> 0,
          total_matches |-> 0, confidence |-> <<0, 1>>]
    ELSE LET song_scores == SelectSeq(scores, LAMBDA e : e.key[1] = song_id)
             best == IF song_scores # <<>> THEN max_by_score(song_scores)
                     ELSE [key |-> <<song_id, 0>>, n |-> 0]
         IN [empty |-> FALSE,
             best_offset |-> best.key[2],
             best_score |-> best.n,
             total_matches |-> SumScores(song_scores),
             confidence |-> IF scores # <<>> THEN <<best.n, Len(scores)>> ELSE <<0, 1>>]

\* cursor.lastrowid of INSERT INTO Songs: AUTOINCREMENT, no row is ever deleted
new_song_id(songs) == Cardinality(songs) + 1

add_song(songs) == songs \cup {new_song_id(songs)}

\* the rows add_fingerprints appends: every field through int()
add_fingerprints(table, song_id, fps) ==
    table \o [k \in DOMAIN fps |->
                [song_id |-> song_id,
                 f_anchor |-> IntVal(fps[k][1][1]),
                 f_target |-> IntVal(fps[k][1][2]),
                 delta_t |-> IntVal(fps[k][1][3]),
                 t_anchor |-> IntVal(fps[k][2])]]

\* int(value) on a fetched value that is not bytes: "raise" for a text that
\* is no number (ValueError) and for a REAL infinity (OverflowError)
int_of(val) ==
    CASE val.kind = "int" -> [outcome |-> "ok", n |-> val.v[1]]
      [] val.kind = "real" -> [outcome |-> "ok", n |-> val.v[1] \div val.v[2]]
      [] val.kind = "text" -> [outcome |-> "raise", n |-> 0]
      [] val.kind = "inf" -> [outcome |-> "raise", n |-> 0]
      [] val.kind = "blob" -> [outcome |-> "ok", n |-> 0]

\* the conversion of one field in optimize_database (lines 404-416)
converted_value(val) ==
    IF val.kind = "blob"
    THEN [outcome |-> "ok",
          n |-> IF Len(val.v) >= 4 THEN unpack_i32(val.v) ELSE from_bytes_little(val.v)]
    ELSE int_of(val)

RowFields(row) == <<row.f_anchor, row.f_target, row.delta_t, row.t_anchor>>

needs_update(row) == \E k \in 1..4 : RowFields(row)[k].kind = "blob"

row_raises(row) == \E k \in 1..4 : converted_value(RowFields(row)[k]).outcome = "raise"

\* the UPDATE of a row that holds bytes: all four fields are rewritten
updated_row(row) ==
    IF needs_update(row)
    THEN [song_id |-> row.song_id,
          f_anchor |-> IntVal(converted_value(row.f_anchor).n),
          f_target |-> IntVal(converted_value(row.f_target).n),
          delta_t |-> IntVal(converted_value(row.delta_t).n),
          t_anchor |-> IntVal(converted_value(row.t_anchor).n)]
    ELSE row

\* optimize_database that deletes the rows it cannot leave as they are
optimize_database_deleting_converted(table) ==
    [status |-> "returned", optimized |-> table # <<>>,
     table |-> SelectSeq(table, LAMBDA row : ~needs_update(row)),
     total_fingerprints |-> Len(table),
     converted_fingerprints |-> Cardinality({k \in DOMAIN table : needs_update(table[k])})]

\* batch_size = 10000 (line 388)
batch_size == 10000

\* the rows of the k-th fetchmany(batch_size)
BatchRows(table, k) ==
    {i \in DOMAIN table : (k - 1) * batch_size < i /\ i <= k * batch_size}

\* DatabaseManager.optimize_database: the table it leaves and what it
\* returns.  The UPDATEs of a batch are executed on the cursor the SELECT is
\* read from, which ends the SELECT: the batch with the first row that holds
\* bytes is the last one fetched.  An exception of int() leaves the `with`
\* block before any UPDATE was executed.  The dictionary returned for an
\* empty table has no counts: 0 stands for that.
optimize_database(table) ==
    LET batches == 1..((Len(table) + batch_size - 1) \div batch_size)
        updating == {k \in batches : \E i \in BatchRows(table, k) : needs_update(table[i])}
        last == IF updating = {} THEN (Len(table) + batch_size - 1) \div batch_size
                ELSE CHOOSE k \in updating : \A m \in updating : k <= m
        fetched == {i \in DOMAIN table : i <= last * batch_size}
    IN IF table = <<>>
       THEN [status |-> "returned", optimized |-> FALSE, table |-> table,
             total_fingerprints |-> 0, converted_fingerprints |-> 0]
       ELSE IF \E i \in fetched : row_raises(table[i])
       THEN [status |-> "raised", optimized |-> FALSE, table |-> table,
             total_fingerprints |-> Len(table), converted_fingerprints |-> 0]
       ELSE [status |-> "returned", optimized |-> TRUE,
             table |-> [i \in DOMAIN table |->
                          IF i \in fetched THEN updated_row(table[i]) ELSE table[i]],
             total_fingerprints |-> Len(table),
             converted_fingerprints |->
                 Cardinality({i \in fetched : needs_update(table[i])})]

\* the rows of SELECT ... FROM Fingerprints LIMIT n
sample(table, n) == SubSeq(table, 1, Min(n, Len(table)))

\* DatabaseManager.needs_optimization
needs_optimization(table) ==
    IF Len(table) = 0 THEN FALSE
    ELSE LET rows == sample(table, 10)
         IN \E i \in DOMAIN rows : needs_update(rows[i])

\* DatabaseManager.is_optimized
is_optimized(table) ==
    IF Len(table) = 0 THEN TRUE
    ELSE LET rows == sample(table, 5)
         IN ~\E i \in DOMAIN rows : needs_update(rows[i])

----------------------------------------------------------------------------
(* Spec: the index is ingested into by Engine.add_song_to_database and     *)
(* queried by Engine.identify_song.  The database file may start out with  *)
(* rows of an older writer, whose t_anchor need not be an INTEGER.         *)

\* the hashes and anchor times of the recordings ingested and queried
HashSet == {<<1, 2, 1>>, <<1, 2, 2>>}

AnchorTimes == {0, 1}

\* (hash, t_anchor) pairs: one hash at both anchor times, the other at one
FingerprintSet == {fp \in HashSet \X AnchorTimes : fp[1][3] = 1 \/ fp[2] = 0}

LegacyTAnchors ==
    {BlobVal(<<1, 0, 0, 0>>), BlobVal(<<255, 255, 255, 255>>), BlobVal(<<1>>),
     RealVal(3, 2), TextVal, InfVal}

LegacyRows ==
    {[song_id |-> 1, f_anchor |-> IntVal(h[1]), f_target |-> IntVal(h[2]),
      delta_t |-> IntVal(h[3]), t_anchor |-> t] : h \in HashSet, t \in LegacyTAnchors}

GenIdle ==
    /\ fan_value = 1
    /\ target_zone = <<1, 1>>
    /\ peaks = <<>>
    /\ fingerprints = <<>>
    /\ shuffled_peaks = <<>>
    /\ shuffled_fingerprints = <<>>
    /\ gen_pc = "off"
    /\ configured = [fan_value |-> 1, target_zone |-> <<1, 1>>]
    /\ multiple_strategies = FALSE
    /\ robust_fingerprints = <<>>
    /\ again_fingerprints = <<>>

NotComputed == [called |-> FALSE, samples |-> 0, out |-> NoSpectrogram("ok")]

NotIdentified == [called |-> FALSE, status |-> "ok", steps |-> <<>>]

AudioIdle ==
    /\ fft_size = 1
    /\ hop_length = 1
    /\ signal = 0
    /\ sample_rate = 1
    /\ max_duration = 0
    /\ spectrogram = NotComputed
    /\ identified = NotIdentified
    /\ audio_pc = "off"

NotFound == [called |-> FALSE, out |-> find_peaks(<<>>, <<1, 1>>, 0)]

PeaksIdle ==
    /\ S_db = <<>>
    /\ neighborhood = <<1, 1>>
    /\ threshold = 0
    /\ found = NotFound
    /\ peaks_pc = "off"

SigIdle == AudioIdle /\ PeaksIdle

\* the (hash, t_anchor) pairs add_fingerprints inserted for a song
PairsOf(table, song_id) ==
    {<<<<table[i].f_anchor.v[1], table[i].f_target.v[1], table[i].delta_t.v[1]>>,
       table[i].t_anchor.v[1]>> :
        i \in {j \in DOMAIN table : table[j].song_id = song_id /\ table[j].t_anchor.kind = "int"}}

\* source: the indexed song the query file is a recording of, None for a
\* recording of a song that was never ingested
NoMatchYet ==
    [called |-> FALSE, source |-> None, query |-> <<>>, table |-> <<>>,
     result |-> match_query(<<>>, <<>>)]

NoDetails == [called |-> FALSE, d |-> get_match_details({}, None, <<>>)]

NotRematched == [called |-> FALSE, result |-> match_query(<<>>, <<>>)]

NoUpload ==
    [total_files |-> 0, remaining |-> 0, successful_imports |-> 0, failed_imports |-> 0,
     outcome |-> "none", songs_before |-> {}, fingerprints_before |-> <<>>]

NotReported == [called |-> FALSE, needs_optimization |-> FALSE, is_optimized |-> TRUE]

NotOptimized ==
    [called |-> FALSE, status |-> "returned", optimized |-> FALSE,
     total_fingerprints |-> 0, converted_fingerprints |-> 0]

DbIdle ==
    /\ Songs = {}
    /\ Fingerprints = <<>>
    /\ matched = NoMatchYet
    /\ details = NoDetails
    /\ optimized = NotOptimized
    /\ reported = NotReported
    /\ rematched = NotRematched
    /\ upload = NoUpload

NothingSeen ==
    [op |-> "none", song_id |-> None, row_visible |-> FALSE,
     postings_visible |-> 0, postings_total |-> 0]

ConcIdle ==
    /\ w_pc = "idle"
    /\ w_song_id = None
    /\ w_fingerprints = <<>>
    /\ r_pc = "idle"
    /\ r_query = <<>>
    /\ r_scores = <<>>
    /\ seen = NothingSeen

Init ==
    /\ GenIdle
    /\ ConcIdle
    /\ SigIdle
    /\ Fingerprints \in {<<>>} \cup {<<row>> : row \in LegacyRows}
    /\ Songs = IF Fingerprints = <<>> THEN {} ELSE {1}
    /\ matched = NoMatchYet
    /\ details = NoDetails
    /\ optimized = NotOptimized
    /\ reported = NotReported
    /\ rematched = NotRematched
    /\ upload = NoUpload

\* Engine.add_song_to_database: add_song, then add_fingerprints with its id
AddSongToDatabase ==
    /\ Cardinality(Songs) < MaxSongs
    /\ \E fps \in SeqsUpTo(FingerprintSet, MaxRows - Len(Fingerprints)) :
          /\ Songs' = add_song(Songs)
          /\ Fingerprints' = add_fingerprints(Fingerprints, new_song_id(Songs), fps)
    /\ matched' = NoMatchYet
    /\ details' = NoDetails
    /\ optimized' = NotOptimized
    /\ reported' = NotReported
    /\ rematched' = NotRematched
    /\ UNCHANGED upload
    /\ UNCHANGED <<gen_vars, conc_vars>>
    /\ UNCHANGED sig_vars

\* Engine.identify_song: match_query, then get_match_details if best_song_id.
\* matched and details hold what the call returned, with the table it read,
\* until the next call; the call itself reads nothing of an earlier one.
\* Between two ingestions the model takes one identify_song call or calls of
\* optimize_database: neither reads what the other left outside the tables,
\* and the index optimize_database leaves is queried after the next
\* ingestion (which may add a song without fingerprints).
IdentifySong ==
    /\ ~matched.called
    /\ ~optimized.called
    /\ \E source \in Songs \cup {None}, q \in SeqsUpTo(FingerprintSet, MaxQuery) :
          LET result == match_query(Fingerprints, q)
          IN /\ source # None => Range(q) \subseteq PairsOf(Fingerprints, source)
             /\ matched' = [called |-> TRUE, source |-> source, query |-> q,
                            table |-> Fingerprints, result |-> result]
             /\ details' =
                  IF result.status = "returned" /\ result.best_song_id # None
                  THEN [called |-> TRUE,
                        d |-> get_match_details(Songs, result.best_song_id, result.scores)]
                  ELSE NoDetails
    /\ optimized' = NotOptimized
    /\ reported' = NotReported
    /\ rematched' = NotRematched
    /\ UNCHANGED upload
    /\ UNCHANGED <<gen_vars, db_vars, conc_vars>>
    /\ UNCHANGED sig_vars

\* DatabaseManager.optimize_database
OptimizeDatabase ==
    /\ ~matched.called
    /\ LET result == optimize_database(Fingerprints)
       IN /\ Fingerprints' = result.table
          /\ optimized' = [called |-> TRUE, status |-> result.status,
                           optimized |-> result.optimized,
                           total_fingerprints |-> result.total_fingerprints,
                           converted_fingerprints |-> result.converted_fingerprints]
    /\ reported' = NotReported
    /\ rematched' = NotRematched
    /\ UNCHANGED upload
    /\ UNCHANGED <<Songs, matched, details, gen_vars, conc_vars>>
    /\ UNCHANGED sig_vars

Next == AddSongToDatabase \/ IdentifySong \/ OptimizeDatabase

Spec == Init /\ [][Next]_vars

----------------------------------------------------------------------------
(* SpecOpt: optimize_database, needs_optimization and is_optimized on the  *)
(* Fingerprints tables earlier versions left, whose fields hold integers,  *)
(* byte strings (4-byte, 1-byte and 8-byte little-endian encodings), REAL  *)
(* or TEXT values.                                                          *)

\* little-endian encodings: 1 and -1 in four bytes, 1 in one byte, and 1,
\* 2^31 and -1 in eight bytes
ByteStrings ==
    {<<1, 0, 0, 0>>, <<255, 255, 255, 255>>, <<1>>,
     <<1, 0, 0, 0, 0, 0, 0, 0>>, <<0, 0, 0, 128, 0, 0, 0, 0>>,
     <<255, 255, 255, 255, 255, 255, 255, 255>>}

StoredTAnchors == {IntVal(1), RealVal(3, 2), TextVal} \cup {BlobVal(b) : b \in ByteStrings}

StoredRows ==
    {[song_id |-> 1, f_anchor |-> f, f_target |-> IntVal(2), delta_t |-> IntVal(1),
      t_anchor |-> t] : f \in {IntVal(1), BlobVal(<<1, 0, 0, 0, 0, 0, 0, 0>>)},
                        t \in StoredTAnchors}

\* a row of integers and a row with a byte string, for the long tables
SampleRows ==
    {[song_id |-> 1, f_anchor |-> IntVal(1), f_target |-> IntVal(2), delta_t |-> IntVal(1),
      t_anchor |-> t] : t \in {IntVal(1), BlobVal(<<1, 0, 0, 0>>)}}

InitOpt ==
    /\ GenIdle
    /\ ConcIdle
    /\ SigIdle
    /\ Fingerprints \in SeqsUpTo(StoredRows, MaxStored) \cup SeqsUpTo(SampleRows, MaxTable)
    /\ Songs = IF Fingerprints = <<>> THEN {} ELSE {1}
    /\ matched = NoMatchYet
    /\ details = NoDetails
    /\ optimized = NotOptimized
    /\ reported = NotReported
    /\ rematched = NotRematched
    /\ upload = NoUpload

\* DatabaseManager.needs_optimization and DatabaseManager.is_optimized,
\* called one after the other on the same table
CheckOptimization ==
    /\ reported' = [called |-> TRUE,
                    needs_optimization |-> needs_optimization(Fingerprints),
                    is_optimized |-> is_optimized(Fingerprints)]
    /\ optimized' = NotOptimized
    /\ rematched' = NotRematched
    /\ UNCHANGED <<db_vars, matched, details, upload, gen_vars, conc_vars>>
    /\ UNCHANGED sig_vars

NextOpt == OptimizeDatabase \/ CheckOptimization

SpecOpt == InitOpt /\ [][NextOpt]_vars

----------------------------------------------------------------------------
(* SpecDb: the public operations of DatabaseManager called one by one:     *)
(* add_song, add_fingerprints with any song_id (the schema's foreign key   *)
(* is not enforced: no PRAGMA foreign_keys), match_query with               *)
(* get_match_details as identify_song calls them, and the same match_query *)
(* call once more.                                                          *)

\* the song_id arguments of add_fingerprints
SongIds == {1, 2}

\* the fingerprints handed to add_fingerprints
PostingSet == {fp \in FingerprintSet : fp[2] = 0}

InitDb ==
    /\ GenIdle
    /\ ConcIdle
    /\ SigIdle
    /\ DbIdle

\* DatabaseManager.add_song
DbAddSong ==
    /\ Cardinality(Songs) < MaxSongs
    /\ Songs' = add_song(Songs)
    /\ matched' = NoMatchYet
    /\ details' = NoDetails
    /\ optimized' = NotOptimized
    /\ reported' = NotReported
    /\ rematched' = NotRematched
    /\ UNCHANGED <<Fingerprints, upload, gen_vars, conc_vars>>
    /\ UNCHANGED sig_vars

\* DatabaseManager.add_fingerprints
DbAddFingerprints ==
    /\ \E song_id \in SongIds :
       \E fps \in SeqsUpTo(PostingSet, MaxPostings - Len(Fingerprints)) :
          /\ fps # <<>>
          /\ Fingerprints' = add_fingerprints(Fingerprints, song_id, fps)
    /\ matched' = NoMatchYet
    /\ details' = NoDetails
    /\ optimized' = NotOptimized
    /\ reported' = NotReported
    /\ rematched' = NotRematched
    /\ UNCHANGED <<Songs, upload, gen_vars, conc_vars>>
    /\ UNCHANGED sig_vars

\* match_query called again with the query of the last call; no operation
\* came between the two calls
IdentifySongAgain ==
    /\ matched.called
    /\ ~rematched.called
    /\ rematched' = [called |-> TRUE, result |-> match_query(Fingerprints, matched.query)]
    /\ UNCHANGED <<db_vars, matched, details, optimized, reported, upload>>
    /\ UNCHANGED <<gen_vars, conc_vars>>
    /\ UNCHANGED sig_vars

NextDb == DbAddSong \/ DbAddFingerprints \/ IdentifySong \/ IdentifySongAgain

SpecDb == InitDb /\ [][NextDb]_vars

----------------------------------------------------------------------------
(* SpecBulk: execute_bulk_upload calling Engine.add_song_to_database for   *)
(* one file after the other.  A file either cannot be decoded or decodes   *)
(* to a signal of some length; add_song and add_fingerprints each run in a *)
(* connection of their own, and either of them can raise (an               *)
(* sqlite3.OperationalError such as "database is locked").                 *)

\* fault: the database call that raises for this file, if it is reached
Files ==
    [decodes : BOOLEAN, samples : {1, 4},
     fault : {"none", "add_song", "add_fingerprints"}]

\* Engine.add_song_to_database on a file whose fingerprints are fps: the
\* Songs and Fingerprints it leaves, and whether it returned ("ok") or which
\* call raised
add_song_to_database(songs, table, file, fps, fft, hop) ==
    LET analysis_results == process_audio_file(file.samples, fft, hop)
        song_id == new_song_id(songs)
    IN IF ~file.decodes
       THEN [status |-> "load_audio_ffmpeg", songs |-> songs, table |-> table]
       ELSE IF analysis_results.status # "ok"
       THEN [status |-> analysis_results.steps[Len(analysis_results.steps)].fn,
             songs |-> songs, table |-> table]
       ELSE IF file.fault = "add_song"
       THEN [status |-> "add_song", songs |-> songs, table |-> table]
       ELSE IF file.fault = "add_fingerprints"
       THEN [status |-> "add_fingerprints", songs |-> add_song(songs), table |-> table]
       ELSE [status |-> "ok", songs |-> add_song(songs),
             table |-> add_fingerprints(table, song_id, fps)]

InitBulk ==
    /\ GenIdle
    /\ ConcIdle
    /\ PeaksIdle
    /\ fft_size = 2
    /\ hop_length = 1
    /\ signal = 0
    /\ sample_rate = 1
    /\ max_duration = 0
    /\ spectrogram = NotComputed
    /\ identified = NotIdentified
    /\ audio_pc = "off"
    /\ Songs = {}
    /\ Fingerprints = <<>>
    /\ matched = NoMatchYet
    /\ details = NoDetails
    /\ optimized = NotOptimized
    /\ reported = NotReported
    /\ rematched = NotRematched
    /\ \E n \in 1..MaxFiles : upload = [NoUpload EXCEPT !.total_files = n, !.remaining = n]

\* one pass of the loop of execute_bulk_upload: the try block and its
\* except Exception
UploadFile ==
    /\ upload.remaining > 0
    /\ \E file \in Files, fps \in SeqsUpTo(PostingSet, 1) :
          LET call == add_song_to_database(Songs, Fingerprints, file, fps,
                                           fft_size, hop_length)
          IN /\ Songs' = call.songs
             /\ Fingerprints' = call.table
             /\ upload' =
                  [total_files |-> upload.total_files,
                   remaining |-> upload.remaining - 1,
                   successful_imports |->
                       upload.successful_imports + IF call.status = "ok" THEN 1 ELSE 0,
                   failed_imports |->
                       upload.failed_imports + IF call.status = "ok" THEN 0 ELSE 1,
                   outcome |-> call.status,
                   songs_before |-> Songs,
                   fingerprints_before |-> Fingerprints]
    /\ UNCHANGED <<matched, details, optimized, reported, rematched>>
    /\ UNCHANGED <<gen_vars, conc_vars>>
    /\ UNCHANGED sig_vars

NextBulk == UploadFile

SpecBulk == InitBulk /\ [][NextBulk]_vars

----------------------------------------------------------------------------
(* SpecConc: one Engine.add_song_to_database at a time, interleaved with a *)
(* reader.  Every `with self.get_connection() as conn` block of the writer *)
(* commits on its own; every SELECT of a reader reads the state committed  *)
(* when it runs.                                                           *)

InitConc ==
    /\ GenIdle
    /\ DbIdle
    /\ ConcIdle
    /\ SigIdle

\* analysis_results = self.process_audio_file(file_path): no shared state
W_ProcessAudioFile ==
    /\ w_pc = "idle"
    /\ Cardinality(Songs) < MaxSongs
    /\ \E fps \in SeqsUpTo(FingerprintSet, MaxRows - Len(Fingerprints)) :
          w_fingerprints' = fps
    /\ w_pc' = "processed"
    /\ w_song_id' = None
    /\ UNCHANGED <<gen_vars, db_vars, matched, details, optimized, reported, rematched, upload,
                   r_pc, r_query, r_scores, seen>>
    /\ UNCHANGED sig_vars

\* song_id = self.db_manager.add_song(...): INSERT INTO Songs, committed
W_AddSong ==
    /\ w_pc = "processed"
    /\ w_song_id' = new_song_id(Songs)
    /\ Songs' = add_song(Songs)
    /\ w_pc' = "song_added"
    /\ UNCHANGED <<gen_vars, Fingerprints, matched, details, optimized, reported, rematched, upload,
                   w_fingerprints, r_pc, r_query, r_scores, seen>>
    /\ UNCHANGED sig_vars

\* self.db_manager.add_fingerprints(song_id, fingerprints): one executemany,
\* committed as a whole
W_AddFingerprints ==
    /\ w_pc = "song_added"
    /\ Fingerprints' = add_fingerprints(Fingerprints, w_song_id, w_fingerprints)
    /\ w_pc' = "idle"
    /\ UNCHANGED <<gen_vars, Songs, matched, details, optimized, reported, rematched, upload,
                   w_song_id, w_fingerprints, r_pc, r_query, r_scores, seen>>
    /\ UNCHANGED sig_vars

\* the song whose ingestion is under way and the part of it a statement
\* that runs now can see
Observed(op) ==
    IF w_pc = "idle" THEN [NothingSeen EXCEPT !.op = op]
    ELSE [op |-> op,
          song_id |-> IF w_song_id = None THEN new_song_id(Songs) ELSE w_song_id,
          row_visible |-> w_song_id # None /\ w_song_id \in Songs,
          postings_visible |->
              Cardinality({i \in DOMAIN Fingerprints : Fingerprints[i].song_id = w_song_id}),
          postings_total |-> Len(w_fingerprints)]

\* DatabaseManager.list_songs: SELECT ... FROM Songs
R_ListSongs ==
    /\ r_pc = "idle"
    /\ seen' = Observed("list_songs")
    /\ UNCHANGED <<gen_vars, db_vars, matched, details, optimized, reported, rematched, upload,
                   w_pc, w_song_id, w_fingerprints, r_pc, r_query, r_scores>>
    /\ UNCHANGED sig_vars

\* Engine.get_database_stats: list_songs() ...
R_StatsListSongs ==
    /\ r_pc = "idle"
    /\ r_pc' = "stats_listed"
    /\ seen' = Observed("get_database_stats")
    /\ UNCHANGED <<gen_vars, db_vars, matched, details, optimized, reported, rematched, upload,
                   w_pc, w_song_id, w_fingerprints, r_query, r_scores>>
    /\ UNCHANGED sig_vars

\* ... then SELECT COUNT(*) FROM Fingerprints on a connection of its own
R_StatsCount ==
    /\ r_pc = "stats_listed"
    /\ r_pc' = "idle"
    /\ seen' = Observed("get_database_stats")
    /\ UNCHANGED <<gen_vars, db_vars, matched, details, optimized, reported, rematched, upload,
                   w_pc, w_song_id, w_fingerprints, r_query, r_scores>>
    /\ UNCHANGED sig_vars

\* DatabaseManager.match_query is entered: scores = defaultdict(int)
R_MatchBegin ==
    /\ r_pc = "idle"
    /\ \E q \in SeqsUpTo(FingerprintSet, MaxQuery) : r_query' = q
    /\ r_scores' = <<>>
    /\ r_pc' = "matching"
    /\ UNCHANGED <<gen_vars, db_vars, matched, details, optimized, reported, rematched, upload,
                   w_pc, w_song_id, w_fingerprints, seen>>
    /\ UNCHANGED sig_vars

\* one pass of the loop over fingerprints_query: a SELECT and its postings
R_MatchLookup ==
    /\ r_pc = "matching"
    /\ r_query # <<>>
    /\ LET after == PostingsLoop(fetch_matches(Fingerprints, Head(r_query)[1]), 1,
                                 Head(r_query)[2], r_scores)
       IN r_scores' = after.scores
    /\ r_query' = Tail(r_query)
    /\ seen' = Observed("match_query")
    /\ UNCHANGED <<gen_vars, db_vars, matched, details, optimized, reported, rematched, upload,
                   w_pc, w_song_id, w_fingerprints, r_pc>>
    /\ UNCHANGED sig_vars

\* match_query returns
R_MatchReturn ==
    /\ r_pc = "matching"
    /\ r_query = <<>>
    /\ r_pc' = "idle"
    /\ r_scores' = <<>>
    /\ UNCHANGED <<gen_vars, db_vars, matched, details, optimized, reported, rematched, upload,
                   w_pc, w_song_id, w_fingerprints, r_query, seen>>
    /\ UNCHANGED sig_vars

NextConc ==
    \/ W_ProcessAudioFile
    \/ W_AddSong
    \/ W_AddFingerprints
    \/ R_ListSongs
    \/ R_StatsListSongs
    \/ R_StatsCount
    \/ R_MatchBegin
    \/ R_MatchLookup
    \/ R_MatchReturn

SpecConc == InitConc /\ [][NextConc]_vars

\* C10: while add_song_to_database runs for a song, a reader sees either
\* nothing of the song, or its Songs row together with all of its postings.
C10_NoPartialSong ==
    seen.song_id # None =>
        \/ ~seen.row_visible /\ seen.postings_visible = 0
        \/ seen.row_visible /\ seen.postings_visible = seen.postings_total

----------------------------------------------------------------------------
(* SpecGen: a generator is configured, then applied to a peak list and to  *)
(* a permutation of the same list.                                         *)

\* the time and frequency indexes of the peaks
PeakTimes == {0, 1, 2}

PeakFreqs == {1, 2}

PeakSet == PeakTimes \X PeakFreqs

ZoneSet == {z \in {0, 1} \X {1, 2} : z[1] <= z[2]}

InitGen ==
    /\ fan_value \in 1..MaxFan
    /\ target_zone \in ZoneSet
    /\ configured = [fan_value |-> fan_value, target_zone |-> target_zone]
    /\ peaks \in SeqsUpTo(PeakSet, MaxPeaks)
    /\ fingerprints = <<>>
    /\ shuffled_peaks = <<>>
    /\ shuffled_fingerprints = <<>>
    /\ multiple_strategies = FALSE
    /\ robust_fingerprints = <<>>
    /\ again_fingerprints = <<>>
    /\ gen_pc = "ready"
    /\ DbIdle
    /\ ConcIdle
    /\ SigIdle

GenerateFingerprints ==
    /\ gen_pc = "ready"
    /\ fingerprints' = generate_fingerprints(peaks, fan_value, target_zone)
    /\ gen_pc' = "generated"
    /\ UNCHANGED <<fan_value, target_zone, peaks, shuffled_peaks, shuffled_fingerprints>>
    /\ UNCHANGED <<configured, multiple_strategies, robust_fingerprints, again_fingerprints>>
    /\ UNCHANGED <<db_vars, matched, details, optimized, reported, rematched, upload, conc_vars>>
    /\ UNCHANGED sig_vars

GenerateShuffled ==
    /\ gen_pc = "generated"
    /\ \E p \in Shuffles(peaks) :
          /\ shuffled_peaks' = p
          /\ shuffled_fingerprints' = generate_fingerprints(p, fan_value, target_zone)
    /\ gen_pc' = "shuffled"
    /\ UNCHANGED <<fan_value, target_zone, peaks, fingerprints>>
    /\ UNCHANGED <<configured, multiple_strategies, robust_fingerprints, again_fingerprints>>
    /\ UNCHANGED <<db_vars, matched, details, optimized, reported, rematched, upload, conc_vars>>
    /\ UNCHANGED sig_vars

\* generate_fingerprints called a second time on the same generator with
\* the same peak list
GenerateFingerprintsAgain ==
    /\ gen_pc = "generated"
    /\ again_fingerprints' = generate_fingerprints(peaks, fan_value, target_zone)
    /\ gen_pc' = "again"
    /\ UNCHANGED <<fan_value, target_zone, peaks, fingerprints>>
    /\ UNCHANGED <<shuffled_peaks, shuffled_fingerprints>>
    /\ UNCHANGED <<configured, multiple_strategies, robust_fingerprints>>
    /\ UNCHANGED <<db_vars, matched, details, optimized, reported, rematched, upload, conc_vars>>
    /\ UNCHANGED sig_vars

GenerateRobustFingerprints ==
    /\ gen_pc = "ready"
    /\ \E multiple \in BOOLEAN :
          LET call == generate_robust_fingerprints(peaks, fan_value, target_zone, multiple)
          IN /\ multiple_strategies' = multiple
             /\ robust_fingerprints' = call.out
             /\ fan_value' = call.fan_value
    /\ gen_pc' = "robust"
    /\ UNCHANGED <<target_zone, peaks, fingerprints>>
    /\ UNCHANGED <<shuffled_peaks, shuffled_fingerprints>>
    /\ UNCHANGED <<configured, again_fingerprints>>
    /\ UNCHANGED <<db_vars, matched, details, optimized, reported, rematched, upload, conc_vars>>
    /\ UNCHANGED sig_vars

\* generate_robust_fingerprints called a second time with the same arguments
GenerateRobustFingerprintsAgain ==
    /\ gen_pc = "robust"
    /\ LET call == generate_robust_fingerprints(peaks, fan_value, target_zone,
                                                multiple_strategies)
       IN /\ again_fingerprints' = call.out
          /\ fan_value' = call.fan_value
    /\ gen_pc' = "robust_again"
    /\ UNCHANGED <<target_zone, peaks, fingerprints>>
    /\ UNCHANGED <<shuffled_peaks, shuffled_fingerprints>>
    /\ UNCHANGED <<configured, multiple_strategies, robust_fingerprints>>
    /\ UNCHANGED <<db_vars, matched, details, optimized, reported, rematched, upload, conc_vars>>
    /\ UNCHANGED sig_vars

NextGen ==
    \/ GenerateFingerprints
    \/ GenerateShuffled
    \/ GenerateFingerprintsAgain
    \/ GenerateRobustFingerprints
    \/ GenerateRobustFingerprintsAgain

SpecGen == InitGen /\ [][NextGen]_vars

----------------------------------------------------------------------------
(* Claims on matching.  They speak of the last match_query call: its query *)
(* Q, the table T it read and its result R.                                *)

Q == matched.query
T == matched.table
R == matched.result

Returned == matched.called /\ R.status = "returned"

\* the count the vote map holds for a key, 0 for an absent key
Votes(scores, key) ==
    IF \E i \in DOMAIN scores : scores[i].key = key
    THEN (CHOOSE e \in Range(scores) : e.key = key).n
    ELSE 0

\* the stored key of row i is, in integers, the hash h
KeyIs(row, h) ==
    /\ row.f_anchor = IntVal(h[1])
    /\ row.f_target = IntVal(h[2])
    /\ row.delta_t = IntVal(h[3])

SongsOf(table) == {table[i].song_id : i \in DOMAIN table}

MaxVotes(scores) == CHOOSE n \in {e.n : e \in Range(scores)} : \A e \in Range(scores) : e.n <= n

C3_UnknownSongNoMatch ==
    (Returned /\ matched.source = None) => R.best_song_id = None

\* C3 (amended): when no posting of the index has, in all three components,
\* the key of a query fingerprint, match_query returns no match and an empty
\* vote map, whatever songs the index contains.
C3_NoSharedKeyNoMatch ==
    (matched.called
        /\ \A k \in DOMAIN Q : \A i \in DOMAIN T : ~KeyIs(T[i], Q[k][1])) =>
            /\ R.status = "returned"
            /\ R.best_song_id = None
            /\ R.scores = <<>>

\* a non-empty query against a non-empty index that shares no key with it
C3_Witness ==
    /\ Returned
    /\ Q # <<>>
    /\ T # <<>>
    /\ \A k \in DOMAIN Q : \A i \in DOMAIN T : ~KeyIs(T[i], Q[k][1])
    /\ R.best_song_id = None

AllInteger(table) == \A i \in DOMAIN table : table[i].t_anchor.kind = "int"

\* the (query fingerprint, posting) pairs that vote for (song_id, offset)
VotingPairs(key) ==
    {p \in (DOMAIN Q) \X (DOMAIN T) :
        /\ T[p[2]].song_id = key[1]
        /\ KeyIs(T[p[2]], Q[p[1]][1])
        /\ T[p[2]].t_anchor.v[1] - Q[p[1]][2] = key[2]}

CandidateKeys ==
    {e.key : e \in Range(R.scores)}
        \cup {<<T[i].song_id, T[i].t_anchor.v[1] - Q[k][2]>> : i \in DOMAIN T, k \in DOMAIN Q}

\* C5: against an index of integer postings the vote map holds, for each
\* (song_id, offset), exactly the number of (query fingerprint, posting)
\* pairs with that song, an equal key and t_db - t_query = offset; a pair
\* (song_id, offset) with no such match is absent from the map.
C5_VotesCountPairs ==
    (matched.called /\ AllInteger(T)) =>
        /\ R.status = "returned"
        /\ \A key \in CandidateKeys :
              /\ Votes(R.scores, key) = Cardinality(VotingPairs(key))
              /\ Cardinality({i \in DOMAIN R.scores : R.scores[i].key = key})
                    = IF VotingPairs(key) = {} THEN 0 ELSE 1

\* a count of 2 or more beside another entry, and a query fingerprint whose
\* key is in the index under another offset or not at all
C5_Witness ==
    /\ matched.called
    /\ AllInteger(T)
    /\ Len(R.scores) >= 2
    /\ \E e \in Range(R.scores) : e.n >= 2
    /\ \E e \in Range(R.scores) : e.key[2] # 0

\* C6: match_query returns None exactly when the vote map is empty (for an
\* empty query, with no lookup made); otherwise it returns the song of a
\* (song_id, offset) pair whose count is the maximum of the whole map.
C6_WinnerHasMaxVotes ==
    Returned =>
        /\ (R.best_song_id = None) <=> (R.scores = <<>>)
        /\ Q = <<>> => (R.lookups = 0 /\ R.best_song_id = None)
        /\ R.scores # <<>> =>
              \E e \in Range(R.scores) :
                  /\ e.key[1] = R.best_song_id
                  /\ \A x \in Range(R.scores) : x.n <= e.n

\* the maximum is not the first entry of the map and belongs to the song
\* with the smaller id
C6_Witness ==
    /\ Returned
    /\ Len(R.scores) >= 2
    /\ R.scores[1].n < MaxVotes(R.scores)
    /\ R.best_song_id # R.scores[1].key[1]
    /\ R.best_song_id < R.scores[1].key[1]

RECURSIVE VotesOfSong(_, _)
VotesOfSong(scores, song_id) ==
    IF scores = <<>> THEN 0
    ELSE (IF Head(scores).key[1] = song_id THEN Head(scores).n ELSE 0)
            + VotesOfSong(Tail(scores), song_id)

\* C7: for the winning song get_match_details reports best_score = the count
\* of the winning (song, offset) pair, best_offset = its offset,
\* total_matches = the sum of the votes of the song's offsets, confidence =
\* best_score / the number of distinct (song, offset) pairs of the whole map.
C7_MatchDetails ==
    details.called =>
        /\ ~details.d.empty
        /\ \E i \in DOMAIN R.scores :
              /\ \A j \in DOMAIN R.scores : R.scores[j].n <= R.scores[i].n
              /\ \A j \in 1..(i - 1) : R.scores[j].n < R.scores[i].n
              /\ R.scores[i].key[1] = R.best_song_id
              /\ details.d.best_score = R.scores[i].n
              /\ details.d.best_offset = R.scores[i].key[2]
        /\ details.d.total_matches = VotesOfSong(R.scores, R.best_song_id)
        /\ details.d.confidence = <<details.d.best_score, Len(R.scores)>>

\* the winner has votes at two offsets and another song has votes too
C7_Witness ==
    /\ details.called
    /\ details.d.total_matches > details.d.best_score
    /\ Len(R.scores) > details.d.total_matches
    /\ details.d.best_offset # 0

Uninterpretable(val) == val.kind \in {"text", "inf"}

\* C8: a posting whose t_anchor cannot be interpreted as an integer is
\* skipped: the query is not aborted, and the vote map is the one the query
\* gets from the index without the corrupt postings.
C8_CorruptPostingSkipped ==
    matched.called =>
        /\ R.status = "returned"
        /\ R.scores =
              match_query(SelectSeq(T, LAMBDA r : ~Uninterpretable(r.t_anchor)), Q).scores

\* C9: a posting whose stored t_anchor is a non-integral number contributes
\* no vote: the vote map is the one the query gets from the index without
\* these postings.
C9_NonIntegralSkipped ==
    Returned =>
        R.scores = match_query(SelectSeq(T, LAMBDA r : r.t_anchor.kind # "real"), Q).scores

----------------------------------------------------------------------------
(* Claims on the generator *)

\* C1: generate_fingerprints is invariant to the input order of the peaks:
\* a peak list and any permutation of it give the same multiset of
\* (hash, t_anchor), also when several peaks share a time index.  Stated for
\* the zones with min_dt >= 1, as in the default (1, 20).
C1_OrderInvariant ==
    (gen_pc = "shuffled" /\ target_zone[1] >= 1) => BagOfSeq(shuffled_fingerprints) = BagOfSeq(fingerprints)

\* C4: every emitted fingerprint has min_dt <= delta_t <= max_dt and
\* delta_t >= 1, for every configured fan_value and target_zone.
C4_DeltaInZoneAndPositive ==
    gen_pc \in {"generated", "shuffled", "again"} =>
        \A k \in DOMAIN fingerprints :
            LET delta_t == fingerprints[k][1][3]
            IN /\ target_zone[1] <= delta_t
               /\ delta_t <= target_zone[2]
               /\ delta_t >= 1

----------------------------------------------------------------------------
(* SpecAudio: a SpectrogramProcessor is configured and a file is decoded;  *)
(* then compute_spectrogram is called on its signal, or the Engine's       *)
(* identify_song is called on the file.                                    *)

SampleRates == {1, 2}

InitAudio ==
    /\ fft_size \in 1..MaxFft
    /\ hop_length \in 0..MaxHop
    /\ signal \in 0..MaxSamples
    /\ sample_rate \in SampleRates
    /\ max_duration \in 0..MaxDuration
    /\ spectrogram = NotComputed
    /\ identified = NotIdentified
    /\ audio_pc = "ready"
    /\ PeaksIdle
    /\ GenIdle
    /\ DbIdle
    /\ ConcIdle

ComputeSpectrogram ==
    /\ audio_pc = "ready"
    /\ spectrogram' = [called |-> TRUE, samples |-> signal,
                       out |-> compute_spectrogram(signal, fft_size, hop_length)]
    /\ audio_pc' = "computed"
    /\ UNCHANGED <<fft_size, hop_length, signal, sample_rate, max_duration, identified>>
    /\ UNCHANGED <<peak_vars, gen_vars, db_vars, matched, details, optimized, reported, rematched, upload, conc_vars>>

IdentifySongFile ==
    /\ audio_pc = "ready"
    /\ LET result == identify_song(signal, sample_rate, max_duration, fft_size, hop_length)
       IN identified' = [called |-> TRUE, status |-> result.status, steps |-> result.steps]
    /\ audio_pc' = "identified"
    /\ UNCHANGED <<fft_size, hop_length, signal, sample_rate, max_duration, spectrogram>>
    /\ UNCHANGED <<peak_vars, gen_vars, db_vars, matched, details, optimized, reported, rematched, upload, conc_vars>>

NextAudio == ComputeSpectrogram \/ IdentifySongFile

SpecAudio == InitAudio /\ [][NextAudio]_vars

----------------------------------------------------------------------------
(* Claims on the signal path *)

\* the query file is longer than max_duration
LongerThanMax == max_duration # 0 /\ signal > max_duration * sample_rate

AnalysisFns == {"compute_spectrogram", "find_peaks", "generate_fingerprints"}

\* C11: when identify_song is given a query longer than max_duration, every
\* spectrogram, peak and fingerprint computation works on the truncated
\* signal, never on the untruncated one, and match_query is called once, as
\* the last step, on the fingerprints of the truncated signal.
C11_TruncatedBeforeAnalysis ==
    (identified.called /\ LongerThanMax) =>
        /\ \A k \in DOMAIN identified.steps :
              identified.steps[k].fn \in AnalysisFns
                  => identified.steps[k].samples = max_duration * sample_rate
        /\ identified.status = "ok" =>
              /\ Cardinality({k \in DOMAIN identified.steps :
                                 identified.steps[k].fn = "match_query"}) = 1
              /\ identified.steps[Len(identified.steps)]
                    = Step("match_query", max_duration * sample_rate, "ok")

\* C12: compute_spectrogram raises the too-short ValueError exactly when
\* len(signal) < fft_size, returns no spectrogram then, and returns one
\* whenever len(signal) >= fft_size and hop_length >= 1.
C12_TooShortIffBelowFftSize ==
    spectrogram.called =>
        /\ spectrogram.out.status = "ValueError" <=> spectrogram.samples < fft_size
        /\ spectrogram.out.status = "ValueError" =>
              spectrogram.out = NoSpectrogram("ValueError")
        /\ (spectrogram.samples >= fft_size /\ hop_length >= 1) =>
              /\ spectrogram.out.status = "ok"
              /\ spectrogram.out.shape[1] >= 1
              /\ spectrogram.out.shape[2] >= 1

\* a signal of exactly fft_size samples gave a spectrogram
C12_Witness ==
    /\ spectrogram.called
    /\ spectrogram.samples = fft_size
    /\ hop_length >= 1
    /\ spectrogram.out.status = "ok"

\* C13: for len(signal) >= fft_size the matrix has exactly
\* 1 + floor((len(signal) - fft_size) / hop_length) time frames and
\* fft_size/2 + 1 frequency bins, and the two axes have these lengths.
\* The floors are stated by their bounds.
C13_SpectrogramShape ==
    (spectrogram.called /\ spectrogram.out.status = "ok") =>
        LET bins == spectrogram.out.shape[1]
            frames == spectrogram.out.shape[2]
            rest == spectrogram.samples - fft_size
        IN /\ (frames - 1) * hop_length <= rest
           /\ rest < frames * hop_length
           /\ 2 * (bins - 1) <= fft_size
           /\ fft_size < 2 * bins
           /\ spectrogram.out.frequencies = bins
           /\ spectrogram.out.times = frames

\* several frames, and samples left over behind the last one
C13_Witness ==
    /\ spectrogram.called
    /\ spectrogram.out.status = "ok"
    /\ spectrogram.out.shape[2] >= 2
    /\ (spectrogram.samples - fft_size) % hop_length # 0
    /\ fft_size % 2 = 1

----------------------------------------------------------------------------
(* SpecPeaks: find_peaks is called on a spectrogram matrix with a          *)
(* neighborhood size and a threshold.                                      *)

\* the dB values of the cells and the thresholds
Levels == {-20, 10}

Thresholds == {-50, -20}

\* 5x5 blocks with one cell at 10 dB and all the others at -20 dB
ScenarioBlocks ==
    {[r \in 1..5 |-> [c \in 1..5 |-> IF <<r, c>> = hot THEN 10 ELSE -20]] :
        hot \in (1..5) \X (1..5)}

InitPeaks ==
    /\ \/ /\ \E freq_dim \in 1..MaxBins, time_dim \in 1..MaxFrames :
                S_db \in [1..freq_dim -> [1..time_dim -> Levels]]
          /\ neighborhood \in (1..MaxWindow) \X (1..MaxWindow)
          /\ threshold \in Thresholds
       \/ /\ S_db \in ScenarioBlocks
          /\ neighborhood = <<3, 3>>
          /\ threshold = -50
    /\ found = NotFound
    /\ peaks_pc = "ready"
    /\ AudioIdle
    /\ GenIdle
    /\ DbIdle
    /\ ConcIdle

FindPeaks ==
    /\ peaks_pc = "ready"
    /\ found' = [called |-> TRUE, out |-> find_peaks(S_db, neighborhood, threshold)]
    /\ peaks_pc' = "found"
    /\ UNCHANGED <<S_db, neighborhood, threshold>>
    /\ UNCHANGED <<audio_vars, gen_vars, db_vars, matched, details, optimized, reported, rematched, upload, conc_vars>>

NextPeaks == FindPeaks

SpecPeaks == InitPeaks /\ [][NextPeaks]_vars

----------------------------------------------------------------------------
(* Claims on peak extraction.  Cells are <<frequency row, time column>>,   *)
(* from 1; the peak of a cell is <<column - 1, row - 1>>.                  *)

Cells == (1..freq_dim_of(S_db)) \X (1..time_dim_of(S_db))

PeakOf(cell) == <<cell[2] - 1, cell[1] - 1>>

Reported(cell) == \E k \in DOMAIN found.out.peak_list : found.out.peak_list[k] = PeakOf(cell)

\* the freq_window x time_window neighborhood centered on a cell, cut off
\* at the border of the matrix
NeighborhoodOf(cell) ==
    LET freq_pad == (neighborhood[1] - 1) \div 2
        time_pad == (neighborhood[2] - 1) \div 2
    IN {other \in Cells :
          /\ cell[1] - freq_pad <= other[1]
          /\ other[1] <= cell[1] - freq_pad + neighborhood[1] - 1
          /\ cell[2] - time_pad <= other[2]
          /\ other[2] <= cell[2] - time_pad + neighborhood[2] - 1}

\* C14: every peak find_peaks returns is a cell of the matrix whose value is
\* strictly greater than threshold_db.
C14_PeaksAboveThreshold ==
    (found.called /\ found.out.status = "ok") =>
        \A k \in DOMAIN found.out.peak_list :
            \E cell \in Cells :
                /\ found.out.peak_list[k] = PeakOf(cell)
                /\ S_db[cell[1]][cell[2]] > threshold

\* a peak was returned while a cell that equals both its local maximum and
\* the threshold was not
C14_Witness ==
    /\ found.called
    /\ found.out.status = "ok"
    /\ found.out.peak_list # <<>>
    /\ \E cell \in Cells :
          /\ S_db[cell[1]][cell[2]] = threshold
          /\ found.out.local_maxima[cell[1]][cell[2]] = threshold
          /\ ~Reported(cell)

\* C15: a cell is reported exactly when its value exceeds threshold_db and
\* equals the maximum over the neighborhood centered on it and cut off at
\* the matrix border; this for every cell, border cells included.
C15_PeakIffNeighborhoodMax ==
    (found.called /\ found.out.status = "ok") =>
        \A cell \in Cells :
            Reported(cell) <=>
                /\ S_db[cell[1]][cell[2]] > threshold
                /\ \A other \in NeighborhoodOf(cell) :
                      S_db[other[1]][other[2]] <= S_db[cell[1]][cell[2]]

\* C16: for every matrix and neighborhood size, also a matrix with fewer
\* rows or columns than the window, maximum_filter returns a matrix of the
\* shape of its input and find_peaks returns a peak list.
C16_SmallMatrixNoFailure ==
    found.called =>
        /\ found.out.status = "ok"
        /\ freq_dim_of(found.out.local_maxima) = freq_dim_of(S_db)
        /\ time_dim_of(found.out.local_maxima) = time_dim_of(S_db)

InScenario == S_db \in ScenarioBlocks /\ neighborhood = <<3, 3>> /\ threshold = -50

HotCell == CHOOSE cell \in Cells : S_db[cell[1]][cell[2]] = 10

\* C17 as stated: in the 5x5 scenario find_peaks returns exactly one peak,
\* the 10 dB cell, wherever that cell lies.
C17_ScenarioOnePeak ==
    (found.called /\ InScenario) =>
        /\ found.out.status = "ok"
        /\ found.out.peak_list = <<PeakOf(HotCell)>>

\* C17, amended: in the 5x5 scenario find_peaks returns the 10 dB cell
\* once, every other peak it returns is a -20 dB cell, and the 10 dB cell is
\* the only peak exactly when it is the centre cell of the block.
C17_ScenarioCentreOnePeak ==
    (found.called /\ InScenario) =>
        /\ found.out.status = "ok"
        /\ Cardinality({k \in DOMAIN found.out.peak_list :
                           found.out.peak_list[k] = PeakOf(HotCell)}) = 1
        /\ \A cell \in Cells :
              (Reported(cell) /\ cell # HotCell) => S_db[cell[1]][cell[2]] = -20
        /\ found.out.peak_list = <<PeakOf(HotCell)>> <=> HotCell = <<3, 3>>

\* the 10 dB cell in the centre, and found as the only peak
C17_Witness ==
    /\ found.called
    /\ InScenario
    /\ HotCell = <<3, 3>>
    /\ found.out.peak_list = << <<2, 2>> >>

----------------------------------------------------------------------------
(* Claims on the generator: the reference sequence, repeated calls *)

\* the place of peak k in the stable sort by time index: behind the peaks
\* of a smaller time and behind the earlier peaks of the same time
StableRank(ps, k) ==
    1 + Cardinality({m \in DOMAIN ps :
                        \/ ps[m][1] < ps[k][1]
                        \/ ps[m][1] = ps[k][1] /\ m < k})

StablySorted(ps) ==
    [place \in DOMAIN ps |-> ps[CHOOSE k \in DOMAIN ps : StableRank(ps, k) = place]]

RECURSIVE CandidatePairs(_, _, _)
\* <<i, j>> for i = from..N ascending and j = i+1 .. min(i+fan, N) ascending
CandidatePairs(N, fan, from) ==
    IF from > N THEN <<>>
    ELSE [k \in 1..(Min(from + fan, N) - from) |-> <<from, from + k>>]
            \o CandidatePairs(N, fan, from + 1)

ReferenceSequence(ps, fan, zone) ==
    LET sp == StablySorted(ps)
        InZone(pair) ==
            /\ zone[1] <= sp[pair[2]][1] - sp[pair[1]][1]
            /\ sp[pair[2]][1] - sp[pair[1]][1] <= zone[2]
        kept == SelectSeq(CandidatePairs(Len(ps), fan, 1), InZone)
    IN [k \in DOMAIN kept |->
          << <<sp[kept[k][1]][2], sp[kept[k][2]][2],
               sp[kept[k][2]][1] - sp[kept[k][1]][1]>>,
             sp[kept[k][1]][1] >>]

\* C18: the output of generate_fingerprints is the reference sequence: the
\* peaks sorted stably by time, anchors i ascending, candidates
\* j = i+1 .. min(i+fan_value, N) ascending, ((f_i, f_j, t_j - t_i), t_i)
\* emitted exactly for min_dt <= t_j - t_i <= max_dt; an empty peak list
\* gives an empty output.
C18_ReferenceSequence ==
    gen_pc = "generated" =>
        /\ fingerprints = ReferenceSequence(peaks, fan_value, target_zone)
        /\ peaks = <<>> => fingerprints = <<>>

\* an anchor whose fan-out holds a candidate outside the target zone while a
\* later peak inside the zone lies beyond the fan-out
C18_Witness ==
    /\ gen_pc = "generated"
    /\ fingerprints # <<>>
    /\ LET sp == StablySorted(peaks)
           delta(i, j) == sp[j][1] - sp[i][1]
           inside(i, j) == target_zone[1] <= delta(i, j) /\ delta(i, j) <= target_zone[2]
       IN \E i, j, far \in DOMAIN peaks :
             /\ i < j
             /\ j <= i + fan_value
             /\ i + fan_value < far
             /\ ~inside(i, j)
             /\ inside(i, far)

\* C20: a second call of generate_fingerprints, or of
\* generate_robust_fingerprints, on the same generator with the same peak
\* list returns the sequence the first call returned, and fan_value and
\* target_zone are after each call what they were before it.
C20_RepeatedCallSameOutput ==
    /\ gen_pc = "again" => again_fingerprints = fingerprints
    /\ gen_pc = "robust_again" => again_fingerprints = robust_fingerprints
    /\ gen_pc \in {"generated", "again", "robust", "robust_again"} =>
          /\ fan_value = configured.fan_value
          /\ target_zone = configured.target_zone

\* the robust mode, with both strategies, called twice with a non-empty output
C20_Witness ==
    /\ gen_pc = "robust_again"
    /\ multiple_strategies
    /\ Max(2, configured.fan_value \div 2) # configured.fan_value
    /\ Len(robust_fingerprints) >= 2
    /\ again_fingerprints = robust_fingerprints

----------------------------------------------------------------------------
(* Claims on the index across ingestion, matching and optimize_database.    *)

\* the integer a little-endian byte string encodes: signed for four bytes
EncodedInt(b) ==
    LET magnitude(k) == IF k = 1 THEN 1 ELSE IF k = 2 THEN 256
                        ELSE IF k = 3 THEN 65536 ELSE 16777216
        digit(k) == IF k = 4 /\ b[k] >= 128 THEN b[k] - 256 ELSE b[k]
        sum[k \in 0..Len(b)] == IF k = 0 THEN 0 ELSE sum[k - 1] + magnitude(k) * digit(k)
    IN sum[Len(b)]

\* what a stored field stands for, whatever its storage class
LogicalValue(val) == IF val.kind = "blob" THEN IntVal(EncodedInt(val.v)) ELSE val

\* the posting a row stands for
Posting(row) ==
    [song_id |-> row.song_id,
     hash |-> <<LogicalValue(row.f_anchor), LogicalValue(row.f_target),
                LogicalValue(row.delta_t)>>,
     t_anchor |-> LogicalValue(row.t_anchor)]

----------------------------------------------------------------------------
(* Claims on the robust generation mode.                                    *)

\* generate_robust_fingerprints ran both strategies on a non-empty peak list
RobustMode == gen_pc = "robust" /\ multiple_strategies /\ peaks # <<>>

\* the fingerprint of the pair (anchor at position i, target at position j)
PairFingerprint(sp, i, j) == <<<<sp[i][2], sp[j][2], sp[j][1] - sp[i][1]>>, sp[i][1]>>

\* C21: in robust mode the second pass pairs an anchor with no more following
\* peaks than the standard pass does: every fingerprint returned is the pair
\* of an anchor with one of the fan_value peaks that follow it, with delta_t
\* between target_zone.min and target_zone.max + 5, and for every anchor the
\* range of the second pass is no longer than the range of the standard pass.
C21_ReducedFanOut ==
    RobustMode =>
        LET sp == sorted_by_time(peaks)
            fan == configured.fan_value
            zone == configured.target_zone
        IN /\ \A i \in DOMAIN sp :
                 Cardinality(target_range(sp, i, reduced_fan_value(fan)))
                     <= Cardinality(target_range(sp, i, fan))
           /\ \A k \in DOMAIN robust_fingerprints :
                 /\ \E i \in DOMAIN sp : \E j \in (i + 1)..Min(i + fan, Len(sp)) :
                        robust_fingerprints[k] = PairFingerprint(sp, i, j)
                 /\ zone[1] <= robust_fingerprints[k][1][3]
                 /\ robust_fingerprints[k][1][3] <= zone[2] + 5

C23_RobustAtLeastStandard ==
    RobustMode =>
        Len(robust_fingerprints) >=
            Len(generate_fingerprints(peaks, configured.fan_value, configured.target_zone))

----------------------------------------------------------------------------
(* Claims on optimize_database, needs_optimization and is_optimized.        *)

\* the bytes above the fourth repeat the sign of the 32-bit value below them
SignExtended(b) ==
    \A k \in 5..Len(b) : b[k] = IF b[4] >= 128 THEN 255 ELSE 0

\* the integer a little-endian byte string of one, four or eight bytes
\* encodes (signed for four and eight bytes); an eight-byte value outside
\* -2^31..2^31-1 is written as its bytes
EncodedValue(b) ==
    IF Len(b) <= 4 THEN IntVal(EncodedInt(b))
    ELSE IF SignExtended(b) THEN IntVal(EncodedInt(SubSeq(b, 1, 4)))
    ELSE [kind |-> "int64", v |-> b]

\* C24: optimize_database changes no key and no value: no row is added or
\* removed, song_id is untouched, a field stored as an integer is left as it
\* is and a field stored as a little-endian byte string is replaced by the
\* integer the bytes encode, also for 8-byte encodings of values >= 2^31.
C24_OptimizeKeepsValues ==
    [][(optimized'.called /\ optimized'.status = "returned") =>
          /\ Len(Fingerprints') = Len(Fingerprints)
          /\ \A i \in DOMAIN Fingerprints :
                /\ Fingerprints'[i].song_id = Fingerprints[i].song_id
                /\ \A k \in 1..4 :
                      LET before == RowFields(Fingerprints[i])[k]
                          after == RowFields(Fingerprints'[i])[k]
                      IN /\ before.kind = "int" => after = before
                         /\ before.kind = "blob" => after = EncodedValue(before.v)]_vars

\* C27: needs_optimization returns True exactly when some row of
\* Fingerprints holds a byte string in f_anchor, f_target, delta_t or
\* t_anchor, wherever the row lies, and is_optimized returns the negation of
\* what needs_optimization returns.
C27_NeedsOptimizationIffBlob ==
    reported.called =>
        /\ reported.needs_optimization <=>
               \E i \in DOMAIN Fingerprints : \E k \in 1..4 :
                   RowFields(Fingerprints[i])[k].kind = "blob"
        /\ reported.is_optimized <=> ~reported.needs_optimization

----------------------------------------------------------------------------
(* Claims on the frames of compute_spectrogram.                             *)

\* C30: for len(signal) >= fft_size and hop_length >= 1 every frame lies
\* wholly inside the signal (frame_index * hop_length + fft_size <=
\* len(signal) for every frame_index < num_frames), no frame is filled up by
\* np.pad, and the samples behind the last whole frame are in no frame.
C30_NoFramePadded ==
    (spectrogram.called /\ spectrogram.samples >= fft_size /\ hop_length >= 1) =>
        LET num_frames == spectrogram.out.shape[2]
        IN /\ spectrogram.out.status = "ok"
           /\ \A frame_index \in 0..(num_frames - 1) :
                 frame_index * hop_length + fft_size <= spectrogram.samples
           /\ spectrogram.out.padded_frames = {}
           /\ num_frames * hop_length + fft_size > spectrogram.samples

\* two frames or more, with samples left over behind the last of them
C30_Witness ==
    /\ spectrogram.called
    /\ spectrogram.out.status = "ok"
    /\ spectrogram.out.shape[2] >= 2
    /\ (spectrogram.out.shape[2] - 1) * hop_length + fft_size < spectrogram.samples

----------------------------------------------------------------------------
(* Claims on the confidence of a match.                                     *)

\* C28: the confidence get_match_details reports lies between 0 and 1, both
\* included: the winning vote count does not exceed the number of distinct
\* (song, offset) pairs of the vote map it is divided by.
C28_ConfidenceWithinUnit ==
    (details.called /\ ~details.d.empty) =>
        /\ 0 <= details.d.confidence[1]
        /\ details.d.confidence[1] <= details.d.confidence[2]

----------------------------------------------------------------------------
(* Claims on the result of identify_song and on ties.                       *)

\* C25: when identify_song returns a best_match_id that is not None, the
\* result holds best_offset, best_score, confidence and total_matches (the
\* dictionary of get_match_details was merged in and is not empty); when it
\* returns best_match_id = None, the scores map is empty.
C25_ResultFields ==
    Returned =>
        /\ R.best_song_id # None => (details.called /\ ~details.d.empty)
        /\ R.best_song_id = None => R.scores = <<>>

\* the position, in the order match_query casts its votes, of the first vote
\* for a key: query fingerprints in order, for each the postings in table
\* order
FirstVote(key) ==
    LET position(p) == (p[1] - 1) * (Len(T) + 1) + p[2]
    IN CHOOSE n \in {position(p) : p \in VotingPairs(key)} :
           \A p \in VotingPairs(key) : n <= position(p)

\* the (song, offset) pair that wins: among the pairs with the maximum count
\* the one that got its first vote earliest
Winner ==
    CHOOSE key \in {e.key : e \in Range(R.scores)} :
        /\ Votes(R.scores, key) = MaxVotes(R.scores)
        /\ \A e \in Range(R.scores) :
              e.n = MaxVotes(R.scores) => FirstVote(key) <= FirstVote(e.key)

\* C29: a second run of match_query with the same query against the same
\* index returns the same best_song_id and the same vote map; when several
\* (song, offset) pairs tie for the maximum count the song returned is that
\* of the tied pair that got its first vote earliest, and the best_offset
\* get_match_details reports is the offset of this pair.
C29_DeterministicTieBreak ==
    /\ rematched.called =>
          /\ rematched.result.status = R.status
          /\ rematched.result.best_song_id = R.best_song_id
          /\ rematched.result.scores = R.scores
    /\ (Returned /\ AllInteger(T) /\ R.scores # <<>>) =>
          /\ R.best_song_id = Winner[1]
          /\ (details.called /\ ~details.d.empty) => details.d.best_offset = Winner[2]

\* a tie between two songs, won by the song with the larger id, whose pair
\* is not at offset 0, in a call that was repeated
C29_Witness ==
    /\ rematched.called
    /\ Returned
    /\ details.called
    /\ ~details.d.empty
    /\ \E e \in Range(R.scores) :
          /\ e.n = MaxVotes(R.scores)
          /\ e.key[1] < R.best_song_id
    /\ details.d.best_offset # 0

----------------------------------------------------------------------------
(* Claims on the bulk upload.                                               *)

\* C26: when add_song_to_database fails for a file of a bulk upload, at
\* whatever step, Songs and Fingerprints are what they were before the file
\* was attempted; the songs committed before are unchanged after every file,
\* and every file is attempted: a failure ends the upload of that file only.
C26_FailedFileLeavesNoTrace ==
    /\ upload.outcome \notin {"none", "ok"} =>
          /\ Songs = upload.songs_before
          /\ Fingerprints = upload.fingerprints_before
    /\ upload.outcome # "none" =>
          /\ upload.songs_before \subseteq Songs
          /\ Len(upload.fingerprints_before) <= Len(Fingerprints)
          /\ SubSeq(Fingerprints, 1, Len(upload.fingerprints_before))
                = upload.fingerprints_before
    /\ upload.successful_imports + upload.failed_imports + upload.remaining
          = upload.total_files

====
